---- MODULE Spec2Model ----
(***************************************************************************)
(* Title structure alignment (structure_enhancement_module/align_title.py) *)
(* as a state machine: align_titles (flatten the title tree, scan the      *)
(* headings, tiered matching, demotion, write) followed by                 *)
(* process_unmatched_titles (one oracle-driven insertion per unmatched     *)
(* title); and the worker threads of pipeline.py's run_batch at the one     *)
(* place where they meet, the image file of call_api_with_retry.           *)
(*                                                                         *)
(* A text is a sequence of characters.  "A", "B", "C" stand for ideographs *)
(* in U+4E00..U+9FFF, "x", "y" for characters outside that block, " " for  *)
(* whitespace and "#" for the heading marker.  A document line is the      *)
(* sequence of its characters without the terminating newline.  Line       *)
(* numbers are 0-based as in the source; TLA+ sequences are 1-based, so    *)
(* line n of a document is lines[n+1].                                     *)
(***************************************************************************)
EXTENDS Integers, Sequences, FiniteSets, TLC

VARIABLES
    pc,               \* position in the run
    titles_json,      \* the title tree read from titles_json_path
    content,          \* the input document, as lines
    json_titles,      \* process_json_titles(titles_json)
    md_titles,        \* headings of the input: (title, line, level)
    processed_lines,  \* the line buffer align_titles rewrites
    matched_md_idx,   \* line numbers of the consumed headings
    json2md,          \* json index -> matched heading line
    unmatched_titles, \* the unmatched-title records
    md_ptr,           \* heading cursor
    j,                \* index of the tree title being processed
    output_md,        \* the aligned file: <<>> until written, else its lines
    written,          \* whether the aligned file exists
    success,          \* align_titles' first return value, once it returned
    title_idx,        \* process_unmatched_titles: loop index
    it,               \* locals of the current resolver iteration
    attempt,          \* deepseek_api: index of the current HTTP attempt
    response,         \* what deepseek_api returned to the iteration
    resolved_ok,      \* process_unmatched_titles' return value, once returned
    worker,           \* run_batch: the locals of each worker thread
    temp_image,       \* run_batch: the file temp_image.jpg
    first_run         \* what a caller that runs align_titles again kept
                      \* of the first run

vars == <<pc, titles_json, content, json_titles, md_titles, processed_lines,
          matched_md_idx, json2md, unmatched_titles, md_ptr, j, output_md,
          written, success, title_idx, it, attempt, response, resolved_ok,
          worker, temp_image, first_run>>

-----------------------------------------------------------------------------
(* Bounds of the checked inputs *)

MaxTitles == 2
MaxLines == 3

-----------------------------------------------------------------------------
(* Texts *)

CJK == {"A", "B", "C"}

Min(S) == CHOOSE x \in S : \A y \in S : x <= y
Max(S) == CHOOSE x \in S : \A y \in S : x >= y

extract_chinese(text) == SelectSeq(text, LAMBDA ch : ch \in CJK)

\* str.strip() over the model's single whitespace character
Strip(s) ==
    LET nonws == {i \in 1..Len(s) : s[i] # " "}
    IN  IF nonws = {} THEN <<>> ELSE SubSeq(s, Min(nonws), Max(nonws))

\* None, or a text
None == [some |-> FALSE, text |-> <<>>]
Some(t) == [some |-> TRUE, text |-> t]
\* Python truthiness of an optional text: None and "" are both false
Truthy(o) == o.some /\ o.text # <<>>

-----------------------------------------------------------------------------
(* Heading lines *)

HashRun(line) ==
    CHOOSE n \in 0..Len(line) :
        /\ \A i \in 1..n : line[i] = "#"
        /\ (n = Len(line) \/ line[n + 1] # "#")

NoHeading == [ok |-> FALSE, level |-> 0, title |-> <<>>]

\* re.match(r'^(#+)\s*(.+?)\s*$', line): level = len(group(1)),
\* title = group(2).strip().  A line is matched together with its newline,
\* which \s* consumes and "." does not.
heading_re(line) ==
    LET n == HashRun(line)
        rest == SubSeq(line, n + 1, Len(line))
    IN  IF n = 0 THEN NoHeading
        ELSE IF rest # <<>>
             THEN [ok |-> TRUE, level |-> n, title |-> Strip(rest)]
        ELSE IF n >= 2
             THEN [ok |-> TRUE, level |-> n - 1, title |-> <<"#">>]
        ELSE NoHeading

\* f"{'#'*level} {title}\n"
FormatHeading(level, title) == [i \in 1..level |-> "#"] \o <<" ">> \o title

\* the heading scan of a document: (title, line number, declared level)
ScanHeadings(lines) ==
    LET idx == SelectSeq([i \in 1..Len(lines) |-> i],
                         LAMBDA i : heading_re(lines[i]).ok)
    IN  [k \in 1..Len(idx) |->
            [title |-> heading_re(lines[idx[k]]).title,
             line  |-> idx[k] - 1,
             level |-> heading_re(lines[idx[k]]).level]]

-----------------------------------------------------------------------------
(* Title tree and its flattening *)

\* A tree element is a raw-text leaf or a node (a JSON object) with a
\* 'title' and, when has_subtitles, a 'subtitles' array.
Leaf(t) == [kind |-> "str", title |-> t, has_subtitles |-> FALSE,
            subtitles |-> <<>>]
Node(t, subs) == [kind |-> "dict", title |-> t, has_subtitles |-> TRUE,
                  subtitles |-> subs]
Node0(t) == [kind |-> "dict", title |-> t, has_subtitles |-> FALSE,
             subtitles |-> <<>>]

\* get_title_level; level 0 stands for the IndexError raised by
\* entry['subtitles'][0] on an empty array
get_title_level(entry, is_top_level, parent_level, is_in_third_level) ==
    LET by_parent == CASE parent_level = 1 -> 2
                       [] parent_level = 2 -> 3
                       [] parent_level = 3 -> 4
                       [] OTHER -> 4
    IN  IF is_in_third_level THEN 3
        ELSE IF entry.kind = "str"
             THEN CASE parent_level = 1 -> 3
                    [] parent_level = 2 -> 3
                    [] parent_level = 3 -> 4
                    [] OTHER -> 4
        ELSE IF entry.title = <<>> THEN 1
        ELSE IF is_top_level THEN 1
        ELSE IF entry.has_subtitles
             THEN IF entry.subtitles = <<>> THEN 0
                  ELSE LET first_subtitle == entry.subtitles[1]
                       IN  IF first_subtitle.kind = "str" THEN 2
                           ELSE IF first_subtitle.has_subtitles THEN 2
                           ELSE by_parent
        ELSE by_parent

FlatEntry(t, l, i, p) == [title |-> t, level |-> l, index |-> i, parent |-> p]

RECURSIVE process_entry(_, _, _, _, _, _)
RECURSIVE process_subtitles(_, _, _, _, _, _)

\* process_entry: the entries it appends to result, and whether it raised
process_entry(entry, index, parent, parent_level, is_top, is_in_third_level) ==
    LET level == get_title_level(entry, is_top, parent_level,
                                 is_in_third_level)
    IN  IF entry.kind = "str"
        THEN [err |-> FALSE,
              out |-> <<FlatEntry(entry.title, level, index, parent)>>]
        ELSE IF entry.title = <<>> THEN [err |-> FALSE, out |-> <<>>]
        ELSE IF level = 0 THEN [err |-> TRUE, out |-> <<>>]
        ELSE LET own == <<FlatEntry(entry.title, level, index, parent)>>
                 rest == IF entry.has_subtitles
                         THEN process_subtitles(entry.subtitles, 1, index,
                                                entry.title, level, level = 2)
                         ELSE [err |-> FALSE, out |-> <<>>]
             IN  [err |-> rest.err, out |-> own \o rest.out]

\* the loop over entry['subtitles'] from position k on
process_subtitles(subs, k, index, title, level, is_third_level) ==
    IF k > Len(subs) THEN [err |-> FALSE, out |-> <<>>]
    ELSE LET sub == subs[k]
             head == IF sub.kind = "str"
                     THEN [err |-> FALSE,
                           out |-> <<FlatEntry(sub.title,
                                       get_title_level(sub, FALSE, level,
                                                       is_third_level),
                                       index, Some(title))>>]
                     ELSE process_entry(sub, index, Some(title), level, FALSE,
                                        is_third_level)
             tail == IF head.err THEN [err |-> TRUE, out |-> <<>>]
                     ELSE process_subtitles(subs, k + 1, index, title, level,
                                            is_third_level)
         IN  [err |-> head.err \/ tail.err, out |-> head.out \o tail.out]

RECURSIVE process_top(_, _)

\* the loop over titles_json from position i (0-based) on; after each element
\* the debug print calls entry.get, which raises on a raw-text element
process_top(tree, i) ==
    IF i >= Len(tree) THEN [err |-> FALSE, out |-> <<>>]
    ELSE LET entry == tree[i + 1]
             head == process_entry(entry, i, None, 0, TRUE, FALSE)
             raised == head.err \/ entry.kind = "str"
             tail == IF raised THEN [err |-> TRUE, out |-> <<>>]
                     ELSE process_top(tree, i + 1)
         IN  [err |-> raised \/ tail.err, out |-> head.out \o tail.out]

process_json_titles(tree) == process_top(tree, 0)

-----------------------------------------------------------------------------
(* Similarity *)

RECURSIVE LCS(_, _)
\* length of a longest common subsequence
LCS(a, b) ==
    IF a = <<>> \/ b = <<>> THEN 0
    ELSE IF a[1] = b[1] THEN 1 + LCS(Tail(a), Tail(b))
    ELSE LET l == LCS(Tail(a), b)
             r == LCS(a, Tail(b))
         IN  IF l >= r THEN l ELSE r

\* A similarity is a fraction <<numerator, denominator>>.
Sim(n, d) == <<n, d>>
SimGt(a, b) == a[1] * b[2] > b[1] * a[2]
SimGe(a, b) == a[1] * b[2] >= b[1] * a[2]

\* rapidfuzz fuzz.ratio(a, b) / 100.0: the normalized indel similarity
\* 1 - (len(a) + len(b) - 2 LCS) / (len(a) + len(b)), and 1 for two empty texts
fuzz_ratio(a, b) ==
    IF Len(a) + Len(b) = 0 THEN Sim(1, 1)
    ELSE Sim(2 * LCS(a, b), Len(a) + Len(b))

\* needle in haystack (Python's substring test; "" is in every text)
IsSubstring(needle, hay) ==
    \E s \in 0..(Len(hay) - Len(needle)) :
        SubSeq(hay, s + 1, s + Len(needle)) = needle

FuzzyThreshold == Sim(8, 10)
SubstringScore == Sim(9, 10)

is_title_match(md_title, json_title) ==
    LET md_chinese == extract_chinese(md_title)
        json_chinese == extract_chinese(json_title)
        similarity == fuzz_ratio(md_chinese, json_chinese)
    IN  IF md_title = json_title
        THEN [match |-> TRUE, sim |-> Sim(1, 1), exact |-> TRUE]
        ELSE IF md_chinese = json_chinese
        THEN [match |-> TRUE, sim |-> Sim(1, 1), exact |-> TRUE]
        ELSE IF SimGe(similarity, FuzzyThreshold)
        THEN [match |-> TRUE, sim |-> similarity, exact |-> FALSE]
        ELSE IF IsSubstring(json_chinese, md_chinese)
        THEN [match |-> TRUE, sim |-> SubstringScore, exact |-> FALSE]
        ELSE [match |-> FALSE, sim |-> Sim(0, 1), exact |-> FALSE]

-----------------------------------------------------------------------------
(* align_titles *)

\* Unconsumed scanning from the first heading instead of from the cursor
UnconsumedFromStart(titles, ptr, matched) ==
    {m \in 0..(Len(titles) - 1) : titles[m + 1].line \notin matched}

\* Unconsumed without the cursor and without the consumed test
UnconsumedAny(titles, ptr, matched) == 0..(Len(titles) - 1)

\* the headings a tier scans: indices m in range(md_ptr, len(md_titles))
\* whose line is not in matched_md_idx
Unconsumed(titles, ptr, matched) ==
    {m \in ptr..(Len(titles) - 1) : titles[m + 1].line \notin matched}

\* exact_test with containment of the core text in place of its equality
exact_test_contains(md_title, json_title) ==
    \/ md_title = json_title
    \/ IsSubstring(extract_chinese(json_title), extract_chinese(md_title))

\* the exact tier's test
exact_test(md_title, json_title) ==
    \/ md_title = json_title
    \/ extract_chinese(md_title) = extract_chinese(json_title)

ExactHits(jt) ==
    {m \in Unconsumed(md_titles, md_ptr, matched_md_idx) :
        exact_test(md_titles[m + 1].title, jt)}

\* FuzzyBest taking the last of the best candidates
FuzzyBestLast(jt) ==
    LET cand == {m \in Unconsumed(md_titles, md_ptr, matched_md_idx) :
                    LET r == is_title_match(md_titles[m + 1].title, jt)
                    IN  r.match /\ SimGt(r.sim, Sim(0, 1))}
        sim(m) == is_title_match(md_titles[m + 1].title, jt).sim
        best == {m \in cand : \A n \in cand : ~SimGt(sim(n), sim(m))}
    IN  IF cand = {} THEN -1 ELSE Max(best)

\* the fuzzy tier's scan: best_m, or -1
FuzzyBest(jt) ==
    LET cand == {m \in Unconsumed(md_titles, md_ptr, matched_md_idx) :
                    LET r == is_title_match(md_titles[m + 1].title, jt)
                    IN  r.match /\ SimGt(r.sim, Sim(0, 1))}
        sim(m) == is_title_match(md_titles[m + 1].title, jt).sim
        best == {m \in cand : \A n \in cand :
                    /\ ~SimGt(sim(n), sim(m))
                    /\ (n < m => SimGt(sim(m), sim(n)))}
    IN  IF cand = {} THEN -1 ELSE CHOOSE m \in best : TRUE

AlignStart ==
    /\ pc = "start"
    /\ LET r == process_json_titles(titles_json)
       IN  IF r.err
           THEN /\ pc' = "failed"
                /\ success' = "false"
                /\ UNCHANGED <<json_titles, md_titles, processed_lines>>
           ELSE /\ pc' = "loop"
                /\ json_titles' = r.out
                /\ md_titles' = ScanHeadings(content)
                /\ processed_lines' = content
                /\ UNCHANGED success
    /\ UNCHANGED <<titles_json, content, matched_md_idx, json2md,
                   unmatched_titles, md_ptr, j, output_md, written,
                   title_idx, it, attempt, response, resolved_ok,
                   worker, temp_image, first_run>>

\* the bookkeeping both tiers do on a hit at heading index m
Consume(m) ==
    LET h == md_titles[m + 1]
        t == json_titles[j + 1]
    IN  /\ processed_lines' = [processed_lines EXCEPT
                                 ![h.line + 1] = FormatHeading(t.level, h.title)]
        /\ matched_md_idx' = matched_md_idx \cup {h.line}
        /\ json2md' = (j :> h.line) @@ json2md
        /\ md_ptr' = m + 1
        /\ j' = j + 1
        /\ UNCHANGED <<pc, titles_json, content, json_titles, md_titles,
                       unmatched_titles, output_md, written, success,
                       title_idx, it, attempt, response, resolved_ok,
                       worker, temp_image, first_run>>

ExactMatch ==
    /\ pc = "loop"
    /\ j < Len(json_titles)
    /\ ExactHits(json_titles[j + 1].title) # {}
    /\ Consume(Min(ExactHits(json_titles[j + 1].title)))

FuzzyMatch ==
    /\ pc = "loop"
    /\ j < Len(json_titles)
    /\ ExactHits(json_titles[j + 1].title) = {}
    /\ FuzzyBest(json_titles[j + 1].title) # -1
    /\ Consume(FuzzyBest(json_titles[j + 1].title))

\* prev_title_of taking the nearest earlier matched entry
prev_title_matched(k) ==
    LET before == {i \in DOMAIN json2md : i < k}
    IN  IF before = {} THEN None ELSE Some(json_titles[Max(before) + 1].title)

\* prev_title, next_title of the record of json index k
prev_title_of(k) == IF k > 0 THEN Some(json_titles[k].title) ELSE None
next_title_of(k) ==
    IF k < Len(json_titles) - 1 THEN Some(json_titles[k + 2].title) ELSE None

RecordUnmatched ==
    /\ pc = "loop"
    /\ j < Len(json_titles)
    /\ ExactHits(json_titles[j + 1].title) = {}
    /\ FuzzyBest(json_titles[j + 1].title) = -1
    /\ unmatched_titles' = Append(unmatched_titles,
            [title  |-> json_titles[j + 1].title,
             level  |-> json_titles[j + 1].level,
             index  |-> json_titles[j + 1].index,
             parent |-> json_titles[j + 1].parent,
             prev_title |-> prev_title_of(j),
             next_title |-> next_title_of(j)])
    /\ j' = j + 1
    /\ UNCHANGED <<pc, titles_json, content, json_titles, md_titles,
                   processed_lines, matched_md_idx, json2md, md_ptr,
                   output_md, written, success, title_idx, it, attempt,
                   response, resolved_ok,
                   worker, temp_image, first_run>>

\* Demoted without the test of matched_md_idx
DemotedAll(buf, titles, matched) ==
    [i \in 1..Len(buf) |->
        IF \E k \in 1..Len(titles) : titles[k].line = i - 1
        THEN LET k == CHOOSE k \in 1..Len(titles) : titles[k].line = i - 1
             IN  FormatHeading(4, titles[k].title)
        ELSE buf[i]]

\* Demoted lowering an unmatched heading by one level
DemotedOneLevel(buf, titles, matched) ==
    [i \in 1..Len(buf) |->
        IF \E k \in 1..Len(titles) :
               titles[k].line = i - 1 /\ titles[k].line \notin matched
        THEN LET k == CHOOSE k \in 1..Len(titles) : titles[k].line = i - 1
             IN  FormatHeading(titles[k].level + 1, titles[k].title)
        ELSE buf[i]]

\* the demotion loop over md_titles
Demoted(buf, titles, matched) ==
    [i \in 1..Len(buf) |->
        IF \E k \in 1..Len(titles) :
               titles[k].line = i - 1 /\ titles[k].line \notin matched
        THEN LET k == CHOOSE k \in 1..Len(titles) : titles[k].line = i - 1
             IN  FormatHeading(4, titles[k].title)
        ELSE buf[i]]

\* DemoteAndWrite refusing a document without headings
DemoteAndWriteIfHeadings ==
    /\ pc = "loop"
    /\ j = Len(json_titles)
    /\ IF md_titles = <<>>
       THEN /\ pc' = "failed"
            /\ success' = "false"
            /\ UNCHANGED <<processed_lines, output_md, written>>
       ELSE /\ processed_lines' = Demoted(processed_lines, md_titles,
                                          matched_md_idx)
            /\ output_md' = processed_lines'
            /\ written' = TRUE
            /\ success' = "true"
            /\ pc' = "aligned"
    /\ UNCHANGED <<titles_json, content, json_titles, md_titles,
                   matched_md_idx, json2md, unmatched_titles, md_ptr, j,
                   title_idx, it, attempt, response, resolved_ok,
                   worker, temp_image, first_run>>

DemoteAndWrite ==
    /\ pc = "loop"
    /\ j = Len(json_titles)
    /\ processed_lines' = Demoted(processed_lines, md_titles, matched_md_idx)
    /\ output_md' = processed_lines'
    /\ written' = TRUE
    /\ success' = "true"
    /\ pc' = "aligned"
    /\ UNCHANGED <<titles_json, content, json_titles, md_titles,
                   matched_md_idx, json2md, unmatched_titles, md_ptr, j,
                   title_idx, it, attempt, response, resolved_ok,
                   worker, temp_image, first_run>>

\* no second run of align_titles has been started
NoFirstRun == [done |-> FALSE, input |-> <<>>, output |-> <<>>,
               unmatched |-> <<>>]

\* a caller runs align_titles again, on the file the first run wrote and
\* with the same titles.json
Rerun ==
    /\ pc = "aligned"
    /\ success = "true"
    /\ ~first_run.done
    /\ first_run' = [done |-> TRUE, input |-> content, output |-> output_md,
                     unmatched |-> unmatched_titles]
    /\ content' = output_md
    /\ pc' = "start"
    /\ json_titles' = <<>>
    /\ md_titles' = <<>>
    /\ processed_lines' = <<>>
    /\ matched_md_idx' = {}
    /\ json2md' = <<>>
    /\ unmatched_titles' = <<>>
    /\ md_ptr' = 0
    /\ j' = 0
    /\ success' = "pending"
    /\ UNCHANGED <<titles_json, output_md, written, title_idx, it, attempt,
                   response, resolved_ok, worker, temp_image>>

AlignNext == AlignStart \/ ExactMatch \/ FuzzyMatch \/ RecordUnmatched
             \/ DemoteAndWrite

-----------------------------------------------------------------------------
(* Page blocks *)

Digits == {"0", "1", "2", "3", "4", "5", "6", "7", "8", "9"}

\* the digits of a line that starts (after strip) with '<page_idx:' and
\* matches r'<page_idx:(\d+)>'; <<>> when the line is no page marker
PageIdx(line) ==
    LET s == Strip(line)
        ends == {k \in 2..Len(s) : s[k] \notin Digits}
    IN  IF Len(s) < 3 \/ s[1] # "<page_idx:" \/ ends = {} THEN <<>>
        ELSE IF s[Min(ends)] = ">" /\ Min(ends) > 2
             THEN SubSeq(s, 2, Min(ends) - 1)
        ELSE <<>>

\* the first index >= i (1-based) whose stripped line is mark, else
\* Len + 1 (i itself when i is beyond the end)
SkipTo(lines, i, mark) ==
    LET hits == {k \in i..Len(lines) : Strip(lines[k]) = <<mark>>}
    IN  IF hits # {} THEN Min(hits)
        ELSE IF i > Len(lines) THEN i ELSE Len(lines) + 1

RECURSIVE parse_from(_, _)
\* the while loop of parse_page_blocks from index i (1-based) on: lines
\* that are no page marker are passed over, a marker opens a block
parse_from(lines, i) ==
    LET markers == {k \in i..Len(lines) : PageIdx(lines[k]) # <<>>}
    IN  IF markers = {} THEN <<>>
        ELSE LET m == Min(markers)
                 open == SkipTo(lines, m + 1, "[")
                 close == SkipTo(lines, open + 1, "]")
                 block == [page_idx |-> PageIdx(lines[m]),
                           content |-> SubSeq(lines, open + 1, close - 1)]
             IN  <<block>> \o parse_from(lines, close + 1)

parse_page_blocks(lines) == parse_from(lines, 1)

\* current_line at the start of block k: the content lines before it
BlockStart(all_blocks, k) ==
    LET RECURSIVE Sum(_)
        Sum(n) == IF n = 0 THEN 0 ELSE Len(all_blocks[n].content) + Sum(n - 1)
    IN  Sum(k - 1)

FallbackBlocks == 5

filter_page_blocks_by_lines(all_blocks, start_line, end_line, strict_only) ==
    LET hit(k) ==
            /\ BlockStart(all_blocks, k) + Len(all_blocks[k].content) - 1
                 >= start_line
            /\ BlockStart(all_blocks, k) <= end_line
        result == SelectSeq([k \in 1..Len(all_blocks) |-> k], hit)
        after == SelectSeq([k \in 1..Len(all_blocks) |-> k],
                           LAMBDA k : BlockStart(all_blocks, k) > start_line)
        extended == IF Len(after) > FallbackBlocks
                    THEN SubSeq(after, 1, FallbackBlocks) ELSE after
        chosen == IF strict_only \/ result # <<>> THEN result ELSE extended
    IN  [n \in 1..Len(chosen) |-> all_blocks[chosen[n]]]

-----------------------------------------------------------------------------
(* process_unmatched_titles *)

ExpandLines == 200
max_retries == 3

\* a response of the oracle, by what the caller tests of it: None or a text;
\* whether the text is empty, whether it contains the no-position marker,
\* and the number of its first 'global line' token (-1 when it has none)
NoResponse == [is_none |-> TRUE, is_empty |-> TRUE, no_position |-> FALSE,
               token |-> -1]
Text(empty, nopos, tok) == [is_none |-> FALSE, is_empty |-> empty,
                            no_position |-> nopos, token |-> tok]

\* the line of the first heading whose core text equals that of title
FirstCoreLine(titles, title, default) ==
    LET hits == {k \in 1..Len(titles) :
                    extract_chinese(titles[k].title) = extract_chinese(title)}
    IN  IF hits = {} THEN default ELSE titles[Min(hits)].line

\* insert_title_at_line overwriting the line at line_num
insert_title_over_line(lines, title, level, line_num) ==
    IF 0 <= line_num /\ line_num < Len(lines)
    THEN [lines EXCEPT ![line_num + 1] = FormatHeading(level, title)]
    ELSE Append(lines, FormatHeading(level, title))

\* lines.insert(line_num, new_title_line) when 0 <= line_num <= len(lines)
insert_title_at_line(lines, title, level, line_num) ==
    IF 0 <= line_num /\ line_num <= Len(lines)
    THEN SubSeq(lines, 1, line_num) \o <<FormatHeading(level, title)>>
         \o SubSeq(lines, line_num + 1, Len(lines))
    ELSE lines

NoIteration ==
    [title |-> <<>>, level |-> 0, prev_line |-> 0, orig_next_line |-> 0,
     next_line |-> 0, expanded |-> FALSE, outcome |-> "none", at |-> -1,
     lines_before |-> <<>>, http |-> "none"]

AlignUnchanged ==
    UNCHANGED <<titles_json, content, json_titles, md_titles, processed_lines,
                matched_md_idx, json2md, unmatched_titles, md_ptr, j, written,
                success, worker, temp_image, first_run>>

\* the caller: process_unmatched_titles runs when align_titles succeeded and
\* returned a non-empty unmatched list
ResolveEnter ==
    /\ pc = "aligned"
    /\ success = "true"
    /\ unmatched_titles # <<>>
    /\ pc' = "prepare"
    /\ title_idx' = 0
    /\ AlignUnchanged
    /\ UNCHANGED <<output_md, it, attempt, response, resolved_ok>>

\* the lines align_titles wrote, in place of the file as it is now
read_snapshot == processed_lines

\* content = f.read(); lines = content.splitlines(True): the aligned file
\* as it is when the iteration starts
read_aligned_md == output_md

\* one iteration up to the oracle call: re-read the file, locate the
\* neighbours, widen the range when it covers at most two page blocks
Prepare ==
    /\ pc = "prepare"
    /\ title_idx < Len(unmatched_titles)
    /\ LET lines == read_aligned_md
           titles == ScanHeadings(lines)
           u == unmatched_titles[title_idx + 1]
           prev_line == IF Truthy(u.prev_title)
                        THEN FirstCoreLine(titles, u.prev_title.text, 0)
                        ELSE 0
           next_line == IF Truthy(u.next_title)
                        THEN FirstCoreLine(titles, u.next_title.text,
                                           Len(lines) - 1)
                        ELSE Len(lines) - 1
           all_page_blocks == parse_page_blocks(lines)
           page_blocks_in_range ==
               filter_page_blocks_by_lines(all_page_blocks, prev_line,
                                           next_line, FALSE)
           expand == Len(page_blocks_in_range) <= 2
           last_line == Len(lines) - 1
           widened == IF last_line <= prev_line + ExpandLines
                      THEN last_line ELSE prev_line + ExpandLines
       IN  it' = [title |-> u.title, level |-> u.level,
                  prev_line |-> prev_line, orig_next_line |-> next_line,
                  next_line |-> IF expand THEN widened ELSE next_line,
                  expanded |-> expand, outcome |-> "pending", at |-> -1,
                  lines_before |-> lines, http |-> "none"]
    /\ attempt' = 0
    /\ pc' = "call"
    /\ AlignUnchanged
    /\ UNCHANGED <<output_md, title_idx, response, resolved_ok>>

\* deepseek_api: one HTTP attempt answered 200 with a message whose content
\* is body (None when the message carries no content)
Http200 ==
    /\ pc = "call"
    /\ \E body \in {NoResponse, Text(TRUE, FALSE, -1), Text(FALSE, FALSE, -1),
                    Text(FALSE, TRUE, -1), Text(FALSE, TRUE, 0)}
                   \cup {Text(FALSE, FALSE, n) :
                            n \in 0..(Len(output_md) + 1)} :
           response' = body
    /\ it' = [it EXCEPT !.http = "200"]
    /\ pc' = "apply"
    /\ AlignUnchanged
    /\ UNCHANGED <<output_md, title_idx, attempt, resolved_ok>>

\* HttpRetryable granting one attempt more
HttpRetryableOnceMore ==
    /\ pc = "call"
    /\ \E status \in {"429", "exception"} :
           it' = [it EXCEPT !.http = status]
    /\ IF attempt < max_retries
       THEN /\ attempt' = attempt + 1
            /\ UNCHANGED <<pc, response>>
       ELSE /\ response' = NoResponse
            /\ pc' = "apply"
            /\ UNCHANGED attempt
    /\ AlignUnchanged
    /\ UNCHANGED <<output_md, title_idx, resolved_ok>>

\* status 429, or an exception raised inside the try block (by the request
\* or by reading the answer): another attempt while attempts remain, else
\* None
HttpRetryable ==
    /\ pc = "call"
    /\ \E status \in {"429", "exception"} :
           it' = [it EXCEPT !.http = status]
    /\ IF attempt < max_retries - 1
       THEN /\ attempt' = attempt + 1
            /\ UNCHANGED <<pc, response>>
       ELSE /\ response' = NoResponse
            /\ pc' = "apply"
            /\ UNCHANGED attempt
    /\ AlignUnchanged
    /\ UNCHANGED <<output_md, title_idx, resolved_ok>>

\* any other status: None at once
HttpOtherStatus ==
    /\ pc = "call"
    /\ response' = NoResponse
    /\ it' = [it EXCEPT !.http = "other"]
    /\ pc' = "apply"
    /\ AlignUnchanged
    /\ UNCHANGED <<output_md, title_idx, attempt, resolved_ok>>

\* title_idx += 1, then the loop test; return True when the list is done
Advance ==
    /\ title_idx' = title_idx + 1
    /\ IF title_idx + 1 < Len(unmatched_titles)
       THEN pc' = "prepare" /\ UNCHANGED resolved_ok
       ELSE pc' = "resolved" /\ resolved_ok' = "true"
    /\ AlignUnchanged
    /\ UNCHANGED <<attempt, response>>

\* ApplyFailed going round the loop without title_idx += 1
ApplyFailedSameTitle ==
    /\ pc = "apply"
    /\ response.is_none \/ response.is_empty
    /\ it' = [it EXCEPT !.outcome = "failed"]
    /\ pc' = "prepare"
    /\ AlignUnchanged
    /\ UNCHANGED <<output_md, title_idx, attempt, response, resolved_ok>>

\* 'if not response': None or the empty text
ApplyFailed ==
    /\ pc = "apply"
    /\ response.is_none \/ response.is_empty
    /\ it' = [it EXCEPT !.outcome = "failed"]
    /\ UNCHANGED output_md
    /\ Advance

ApplyNoPosition ==
    /\ pc = "apply"
    /\ ~(response.is_none \/ response.is_empty)
    /\ response.no_position
    /\ it' = [it EXCEPT !.outcome = "no_position"]
    /\ UNCHANGED output_md
    /\ Advance

\* ClampLine without the range test
ClampLineNone(global_line, prev_line, next_line) == global_line

\* the position a parsed line number is inserted at
ClampLine(global_line, prev_line, next_line) ==
    IF ~(prev_line <= global_line /\ global_line <= next_line)
    THEN prev_line ELSE global_line

ApplyLine ==
    /\ pc = "apply"
    /\ ~(response.is_none \/ response.is_empty)
    /\ ~response.no_position
    /\ response.token >= 0
    /\ LET global_line == ClampLine(response.token, it.prev_line, it.next_line)
           lines == insert_title_at_line(it.lines_before, it.title, it.level,
                                         global_line)
       IN  /\ output_md' = lines
           /\ it' = [it EXCEPT
                       !.outcome = IF lines = it.lines_before
                                   THEN "not_inserted"
                                   ELSE IF global_line = response.token
                                   THEN "inserted" ELSE "clamped",
                       !.at = global_line]
    /\ Advance

\* ApplyNoToken skipping the title instead of inserting it
ApplyNoTokenSkip ==
    /\ pc = "apply"
    /\ ~(response.is_none \/ response.is_empty)
    /\ ~response.no_position
    /\ response.token < 0
    /\ it' = [it EXCEPT !.outcome = "no_position"]
    /\ UNCHANGED output_md
    /\ Advance

\* no line-number token: insert at the start of the range
ApplyNoToken ==
    /\ pc = "apply"
    /\ ~(response.is_none \/ response.is_empty)
    /\ ~response.no_position
    /\ response.token < 0
    /\ LET lines == insert_title_at_line(it.lines_before, it.title, it.level,
                                         it.prev_line)
       IN  /\ output_md' = lines
           /\ it' = [it EXCEPT
                       !.outcome = IF lines = it.lines_before
                                   THEN "not_inserted" ELSE "fallback",
                       !.at = it.prev_line]
    /\ Advance

ResolveNext == ResolveEnter \/ Prepare \/ Http200 \/ HttpRetryable
               \/ HttpOtherStatus \/ ApplyFailed \/ ApplyNoPosition
               \/ ApplyLine \/ ApplyNoToken

-----------------------------------------------------------------------------
(* run_batch: worker threads in QwenVLClient.call_api_with_retry *)

NumWorkers == 2
qwen_max_retries == 3

\* An image is held as the number of JPEG compression passes it has been
\* through: run_batch hands the same toc_image_path to every worker.
\* temp_image is NoFile while temp_image.jpg does not exist.
NoFile == -1

NoWorker ==
    [pc |-> "idle", retry_count |-> 0, image |-> 0, raising |-> FALSE,
     result |-> "none"]
NewWorker == [NoWorker EXCEPT !.pc = "call"]

SingleRunUnchanged ==
    UNCHANGED <<pc, titles_json, content, json_titles, md_titles,
                processed_lines, matched_md_idx, json2md, unmatched_titles,
                md_ptr, j, output_md, written, success, title_idx, it,
                attempt, response, resolved_ok, first_run>>

\* return self.call_api(messages, **kwargs)
CallApiOk(w) ==
    /\ worker[w].pc = "call"
    /\ worker' = [worker EXCEPT ![w].pc = "done", ![w].result = "ok"]
    /\ UNCHANGED temp_image
    /\ SingleRunUnchanged

\* HTTPError 413: count the retry; give up at max_retries, else compress
CallApi413(w) ==
    /\ worker[w].pc = "call"
    /\ IF worker[w].retry_count + 1 >= qwen_max_retries
       THEN worker' = [worker EXCEPT
                         ![w].retry_count = worker[w].retry_count + 1,
                         ![w].pc = "done", ![w].result = "too_large"]
       ELSE worker' = [worker EXCEPT
                         ![w].retry_count = worker[w].retry_count + 1,
                         ![w].pc = "write_temp"]
    /\ UNCHANGED temp_image
    /\ SingleRunUnchanged

\* any other HTTP error or exception is raised at once
CallApiError(w) ==
    /\ worker[w].pc = "call"
    /\ worker' = [worker EXCEPT ![w].pc = "done", ![w].result = "http_error"]
    /\ UNCHANGED temp_image
    /\ SingleRunUnchanged

\* with open("temp_image.jpg", "wb") as f: f.write(img_data)
WriteTemp(w) ==
    /\ worker[w].pc = "write_temp"
    /\ temp_image' = worker[w].image
    /\ worker' = [worker EXCEPT ![w].pc = "compress"]
    /\ SingleRunUnchanged

\* compress_image(temp_path): Image.open raises when the file is not there;
\* else the message's image becomes the compressed content of the file
CompressTemp(w) ==
    /\ worker[w].pc = "compress"
    /\ IF temp_image = NoFile
       THEN worker' = [worker EXCEPT ![w].raising = TRUE, ![w].pc = "exists"]
       ELSE worker' = [worker EXCEPT ![w].image = temp_image + 1,
                                     ![w].pc = "exists"]
    /\ UNCHANGED temp_image
    /\ SingleRunUnchanged

\* where a worker goes once the finally clause is through
AfterCleanup(w) ==
    IF worker[w].raising
    THEN [worker EXCEPT ![w].pc = "done", ![w].result = "io_error"]
    ELSE [worker EXCEPT ![w].pc = "call"]

\* finally: if os.path.exists(temp_path)
ExistsTemp(w) ==
    /\ worker[w].pc = "exists"
    /\ IF temp_image = NoFile
       THEN worker' = AfterCleanup(w)
       ELSE worker' = [worker EXCEPT ![w].pc = "remove"]
    /\ UNCHANGED temp_image
    /\ SingleRunUnchanged

\* os.remove(temp_path): raises when the file is gone by now
RemoveTemp(w) ==
    /\ worker[w].pc = "remove"
    /\ IF temp_image = NoFile
       THEN /\ worker' = [worker EXCEPT ![w].pc = "done",
                                        ![w].result = "io_error"]
            /\ UNCHANGED temp_image
       ELSE /\ temp_image' = NoFile
            /\ worker' = AfterCleanup(w)
    /\ SingleRunUnchanged

BatchNext ==
    \E w \in 1..NumWorkers :
        \/ CallApiOk(w) \/ CallApi413(w) \/ CallApiError(w)
        \/ WriteTemp(w) \/ CompressTemp(w) \/ ExistsTemp(w) \/ RemoveTemp(w)

-----------------------------------------------------------------------------
(* Inputs *)

TitleTexts == {<<"A">>, <<"A", "B">>, <<"x">>}
HeadingTexts == {<<"A">>, <<"x", "A">>, <<"A", "B">>, <<"A", "B", "C">>,
                 <<"x">>}
BodyLine == <<"y">>

SeqsUpTo(S, n) == UNION {[1..k -> S] : k \in 0..n}

FlatTree(ts) == [i \in 1..Len(ts) |-> Node0(ts[i])]
NestedTree(ts) ==
    <<Node(ts[1], [i \in 1..(Len(ts) - 1) |-> Leaf(ts[i + 1])])>>

Trees ==
    {FlatTree(ts) : ts \in SeqsUpTo(TitleTexts, MaxTitles)}
    \cup {NestedTree(ts) : ts \in SeqsUpTo(TitleTexts, MaxTitles) \ {<<>>}}

DocLines == {FormatHeading(2, t) : t \in HeadingTexts} \cup {BodyLine}
Docs == SeqsUpTo(DocLines, MaxLines)

InitWith(tree, doc) ==
    /\ pc = "start"
    /\ titles_json = tree
    /\ content = doc
    /\ json_titles = <<>>
    /\ md_titles = <<>>
    /\ processed_lines = <<>>
    /\ matched_md_idx = {}
    /\ json2md = <<>>
    /\ unmatched_titles = <<>>
    /\ md_ptr = 0
    /\ j = 0
    /\ output_md = <<>>
    /\ written = FALSE
    /\ success = "pending"
    /\ title_idx = 0
    /\ it = NoIteration
    /\ attempt = 0
    /\ response = NoResponse
    /\ resolved_ok = "pending"
    /\ worker = <<>>
    /\ temp_image = NoFile
    /\ first_run = NoFirstRun

\* The scenario of spec section 8: Governance, Environment{Emissions} against
\* '### Governance', '## Something Else', '#### Emissions' (no ideographs)
Governance == <<"x">>
Environment == <<"x", "y">>
Emissions == <<"y">>
SomethingElse == <<"y", " ", "y">>
ScenarioTree == <<Node0(Governance), Node(Environment, <<Leaf(Emissions)>>)>>
ScenarioDoc == <<FormatHeading(3, Governance), FormatHeading(2, SomethingElse),
                 FormatHeading(4, Emissions)>>

\* Headings in unusual shapes: a bare marker run, no blank after the marker,
\* blanks around the text, an empty text, a marker inside the text
OddDoc == <<<<"#", "#">>, <<"#", "A">>, <<"#", " ">>,
            <<"#", "#", "#", " ", " ", "A", " ", "B", " ">>,
            <<"y", "#">>, <<"#", " ", "#", "A">>>>
OddTrees == {FlatTree(<<t>>) : t \in TitleTexts \cup {<<"A", " ", "B">>}}

\* Three levels of nesting
DeepTree == <<Node(<<"A">>, <<Node(<<"A", "B">>, <<Leaf(<<"x">>)>>)>>)>>

\* A heading at ratio 0.8 ahead of one that only contains the title
NearAndContaining ==
    <<FlatTree(<<<<"A", "B">>>>),
      <<FormatHeading(2, <<"A", "B", "C">>),
        FormatHeading(2, <<"C", "A", "B", "C">>)>>>>

ExtraInputs ==
    {<<ScenarioTree, ScenarioDoc>>, NearAndContaining}
    \cup {<<t, OddDoc>> : t \in OddTrees}
    \cup {<<DeepTree, d>> : d \in SeqsUpTo(DocLines, 2)}

Inputs == (Trees \X Docs) \cup ExtraInputs

Init == \E inp \in Inputs : InitWith(inp[1], inp[2])

Next == AlignNext

Spec == Init /\ [][Next]_vars

\* Inputs of the runs in which align_titles is run twice: the documents
\* are one line shorter
ShortDocs == SeqsUpTo(DocLines, MaxLines - 1)

InitTwice ==
    \E inp \in (Trees \X ShortDocs) \cup ExtraInputs :
        InitWith(inp[1], inp[2])

NextTwice == AlignNext \/ Rerun

SpecTwice == InitTwice /\ [][NextTwice]_vars

\* Inputs of the resolver runs
RTexts == {<<"A">>, <<"C">>}
RTrees == {FlatTree(ts) : ts \in SeqsUpTo(RTexts, MaxTitles)}
RDocLines == {FormatHeading(2, t) : t \in RTexts \cup {<<"A", "B">>}}
             \cup {BodyLine}
RDocs == SeqsUpTo(RDocLines, MaxLines)

\* Documents with page blocks
PageMarker(d) == <<"<page_idx:", d, ">">>
PageBlock(d, body) == <<PageMarker(d), <<"[">>>> \o body \o <<<<"]">>>>
PagedDoc ==
    PageBlock("1", <<FormatHeading(1, <<"A">>)>>)
    \o PageBlock("2", <<BodyLine>>)
    \o PageBlock("3", <<FormatHeading(2, <<"A", "B">>)>>)
PagedTrees == {FlatTree(<<<<"C">>>>), FlatTree(<<<<"C">>, <<"A", "B">>>>),
               FlatTree(<<<<"A">>, <<"C">>, <<"A", "B">>>>)}

\* Five page blocks below two headings, the first of which has the core text
\* of the last title and the second that of the first title
BackwardWindow ==
    <<FlatTree(<<<<"A", "B">>, <<"C">>, <<"A">>>>),
      <<FormatHeading(2, <<"x", "A">>), FormatHeading(2, <<"A", "B">>)>>
      \o PageBlock("1", <<BodyLine>>) \o PageBlock("2", <<BodyLine>>)
      \o PageBlock("3", <<>>) \o PageBlock("4", <<>>)
      \o PageBlock("5", <<>>)>>

\* Page markers in descending order of their ids
DescendingPages ==
    <<FlatTree(<<<<"C">>>>),
      PageBlock("2", <<FormatHeading(2, <<"A">>)>>)
      \o PageBlock("1", <<BodyLine>>)>>

\* A successor heading more than ExpandLines lines below the document start
LongGap ==
    <<FlatTree(<<<<"A">>, <<"C">>>>),
      [i \in 1..(ExpandLines + 2) |-> BodyLine]
      \o <<FormatHeading(2, <<"C">>)>>>>

RExtraInputs ==
    {<<t, PagedDoc>> : t \in PagedTrees}
    \cup {BackwardWindow, DescendingPages, LongGap}
    \cup {<<FlatTree(<<<<"A">>, <<"C">>, <<"A", "B">>>>),
            <<FormatHeading(2, <<"A">>), BodyLine,
              FormatHeading(2, <<"A", "B">>), BodyLine, BodyLine>>>>,
          <<FlatTree(<<<<"A">>, <<"C">>, <<"C">>>>),
            <<BodyLine, FormatHeading(2, <<"A">>), BodyLine>>>>}

RInputs == (RTrees \X RDocs) \cup RExtraInputs

InitResolve == \E inp \in RInputs : InitWith(inp[1], inp[2])

NextResolve == AlignNext \/ ResolveNext

SpecResolve == InitResolve /\ [][NextResolve]_vars

\* a step of process_unmatched_titles or deepseek_api, by what it does to
\* the position in the code and to the attempt counter
ResolverStep ==
    \/ /\ pc = "aligned" /\ success = "true" /\ unmatched_titles # <<>>
       /\ pc' = "prepare" /\ attempt' = attempt
    \/ pc = "prepare" /\ pc' = "call" /\ attempt' = 0
    \/ pc = "call" /\ pc' = "apply" /\ attempt' = attempt
    \/ pc = "call" /\ pc' = "call" /\ attempt' = attempt + 1
    \/ pc = "apply" /\ pc' \in {"prepare", "resolved"} /\ attempt' = attempt

\* Inputs of the runs checked for termination: the documents are one line
\* shorter
RShortDocs == SeqsUpTo(RDocLines, MaxLines - 1)

InitResolveFair ==
    \E inp \in (RTrees \X RShortDocs) \cup RExtraInputs :
        InitWith(inp[1], inp[2])

\* the run as the interpreter executes it: the single thread keeps taking
\* its next step, and every HTTP attempt is answered or raises.  The steps
\* of ResolveNext are the steps of NextResolve that are ResolverStep steps
\* changing <<pc, attempt>>, and both are enabled in the same states.
SpecResolveFair ==
    InitResolveFair /\ [][NextResolve]_vars /\ WF_<<pc, attempt>>(ResolverStep)

\* Inputs of the runs over tree shapes: elements of the top-level array in
\* every shape process_entry distinguishes, with titles that are distinct
\* within one element
TopElems ==
    {Leaf(<<"A">>),
     Node0(<<"A">>),
     Node0(<<>>),
     Node(<<>>, <<Leaf(<<"B">>)>>),
     Node(<<"A">>, <<>>),
     Node(<<"A">>, <<Leaf(<<>>), Leaf(<<"B">>)>>),
     Node(<<"A">>, <<Node0(<<"B">>), Leaf(<<"C">>)>>),
     Node(<<"A">>, <<Node(<<"B">>, <<>>)>>),
     Node(<<"A">>, <<Node(<<>>, <<Leaf(<<"C">>)>>), Leaf(<<"B">>)>>),
     Node(<<"A">>, <<Node(<<"B">>, <<Leaf(<<"C">>)>>)>>),
     Node(<<"A">>, <<Node(<<"B">>, <<Node0(<<"C">>)>>)>>),
     Node(<<"A">>, <<Node(<<"B">>, <<Node(<<"C">>,
         <<Leaf(<<"A", "B">>)>>)>>)>>),
     Node(<<"A">>, <<Node(<<"B">>, <<Node(<<"C">>,
         <<Node0(<<"A", "B">>)>>)>>)>>),
     Node(<<"A">>, <<Node(<<"B">>, <<Node(<<"C">>,
         <<Node(<<"A", "B">>, <<Leaf(<<"x">>)>>)>>)>>)>>),
     Node(<<"A">>, <<Node(<<"B">>, <<Node(<<"C">>,
         <<Node(<<"A", "B">>, <<Node0(<<"x">>),
             Node(<<"y">>, <<Leaf(<<"x", "y">>)>>)>>)>>)>>)>>)}

TreeShapes == SeqsUpTo(TopElems, MaxTitles)

TreeDocs ==
    {<<>>,
     <<BodyLine>>,
     <<FormatHeading(2, <<"A">>), BodyLine, FormatHeading(2, <<"A", "B", "C">>)>>,
     <<FormatHeading(1, <<"x">>), FormatHeading(3, <<"A", "B">>)>>}

\* run_batch with one to NumWorkers input files, each submitted to a thread
InitBatch ==
    /\ \E n \in 1..NumWorkers :
           worker = [w \in 1..NumWorkers |->
                        IF w <= n THEN NewWorker ELSE NoWorker]
    /\ temp_image = NoFile
    /\ first_run = NoFirstRun
    /\ pc = "start"
    /\ titles_json = <<>>
    /\ content = <<>>
    /\ json_titles = <<>>
    /\ md_titles = <<>>
    /\ processed_lines = <<>>
    /\ matched_md_idx = {}
    /\ json2md = <<>>
    /\ unmatched_titles = <<>>
    /\ md_ptr = 0
    /\ j = 0
    /\ output_md = <<>>
    /\ written = FALSE
    /\ success = "pending"
    /\ title_idx = 0
    /\ it = NoIteration
    /\ attempt = 0
    /\ response = NoResponse
    /\ resolved_ok = "pending"

SpecBatch == InitBatch /\ [][BatchNext]_vars

InitTrees == \E tree \in TreeShapes, doc \in TreeDocs : InitWith(tree, doc)

SpecTrees == InitTrees /\ [][Next]_vars

-----------------------------------------------------------------------------
(* Properties of align_titles, checked under Spec *)

\* the heading (index into md_titles) on a given line
HeadingOnLine(line) ==
    CHOOSE m \in 1..Len(md_titles) : md_titles[m].line = line

\* the json indices processed so far that found no heading, in order
UnmatchedIdx ==
    LET U == (0..(j - 1)) \ DOMAIN json2md
    IN  [i \in 1..Cardinality(U) |->
            CHOOSE k \in U : Cardinality({u \in U : u < k}) = i - 1]

\* C1: matcher monotonicity.  For tree titles a before b in tree order that
\* both matched, a's heading line is at most b's heading line.
MatcherMonotone ==
    \A a, b \in DOMAIN json2md : a < b => json2md[a] <= json2md[b]

\* two titles matched around a heading that stayed unconsumed
MatcherMonotoneWitness ==
    /\ pc = "aligned"
    /\ \E a, b \in DOMAIN json2md :
          /\ a < b
          /\ \E m \in 1..Len(md_titles) :
                /\ json2md[a] < md_titles[m].line
                /\ md_titles[m].line < json2md[b]

\* C2: no duplicate consumption.  After any prefix of the tree titles the
\* map from matched tree titles to heading lines is injective, and the
\* consumed set is exactly its range.
NoDuplicateConsumption ==
    /\ \A a, b \in DOMAIN json2md : a # b => json2md[a] # json2md[b]
    /\ matched_md_idx = {json2md[a] : a \in DOMAIN json2md}

\* two tree titles matched to two headings bearing the same text
NoDuplicateConsumptionWitness ==
    \E a, b \in DOMAIN json2md :
        /\ a # b
        /\ md_titles[HeadingOnLine(json2md[a])].title
             = md_titles[HeadingOnLine(json2md[b])].title

HeadingsWithText(t) == {m \in 1..Len(md_titles) : md_titles[m].title = t}

\* every tree title's exact text is the text of exactly one heading, and
\* these headings are in tree order
PerfectInput ==
    /\ \A k \in 1..Len(json_titles) :
          Cardinality(HeadingsWithText(json_titles[k].title)) = 1
    /\ \A a, b \in 1..Len(json_titles) :
          a < b => \A m \in HeadingsWithText(json_titles[a].title),
                      n \in HeadingsWithText(json_titles[b].title) : m < n

\* every tree title matched to the heading with its text, nothing unmatched,
\* each such heading rewritten at its tree level, no line added
RoundTripResult ==
    /\ unmatched_titles = <<>>
    /\ Len(output_md) = Len(content)
    /\ \A k \in 1..Len(json_titles) :
          /\ (k - 1) \in DOMAIN json2md
          /\ md_titles[HeadingOnLine(json2md[k - 1])].title
               = json_titles[k].title
          /\ heading_re(output_md[json2md[k - 1] + 1])
               = [ok |-> TRUE, level |-> json_titles[k].level,
                  title |-> json_titles[k].title]

\* C5 as stated: perfect input gives the round-trip result.
RoundTripOnPerfectInput ==
    (pc = "aligned" /\ PerfectInput) => RoundTripResult

\* no heading shares its core text with a tree title of another text
NoCoreClash ==
    \A k \in 1..Len(json_titles), m \in 1..Len(md_titles) :
        extract_chinese(md_titles[m].title)
            = extract_chinese(json_titles[k].title)
        => md_titles[m].title = json_titles[k].title

\* C5 amended: perfect input in which no other heading has the core text of
\* a tree title gives the round-trip result.
RoundTripWithoutCoreClash ==
    (pc = "aligned" /\ PerfectInput /\ NoCoreClash) => RoundTripResult

\* a perfect, clash-free input of two titles and a third heading, one of the
\* matched headings declared at another level than its tree level
RoundTripWitness ==
    /\ pc = "aligned"
    /\ PerfectInput
    /\ NoCoreClash
    /\ Len(json_titles) >= 2
    /\ Len(md_titles) > Len(json_titles)
    /\ \E k \in 1..Len(json_titles) :
          md_titles[HeadingOnLine(json2md[k - 1])].level # json_titles[k].level

\* C6, its scenario: for Governance, Environment{Emissions} against
\* '### Governance', '## Something Else', '#### Emissions', Environment is
\* unmatched, Something Else is demoted to level 4 and the other two
\* headings become '# Governance' and '### Emissions'.
ScenarioOutcome ==
    (pc = "aligned" /\ titles_json = ScenarioTree /\ content = ScenarioDoc)
    => /\ Len(unmatched_titles) = 1
       /\ unmatched_titles[1].title = Environment
       /\ output_md = <<FormatHeading(1, Governance),
                        FormatHeading(4, SomethingElse),
                        FormatHeading(3, Emissions)>>

\* the nearest matched entry before / after json index k, or None
NearestMatchedBefore(k) ==
    LET S == {a \in DOMAIN json2md : a < k}
    IN  IF S = {} THEN None ELSE Some(json_titles[Max(S) + 1].title)
NearestMatchedAfter(k) ==
    LET S == {a \in DOMAIN json2md : a > k}
    IN  IF S = {} THEN None ELSE Some(json_titles[Min(S) + 1].title)

\* C7 as stated: every unmatched record carries the nearest matched tree
\* entries as predecessor and successor.
NeighboursAreNearestMatched ==
    pc = "aligned" =>
        \A i \in 1..Len(unmatched_titles) :
            /\ unmatched_titles[i].prev_title
                 = NearestMatchedBefore(UnmatchedIdx[i])
            /\ unmatched_titles[i].next_title
                 = NearestMatchedAfter(UnmatchedIdx[i])

\* C7 amended: every unmatched record carries the tree entries immediately
\* before and after it in the flattened list, matched or not, and none only
\* at the ends of the list.
NeighboursAreAdjacent ==
    \A i \in 1..Len(unmatched_titles) :
        LET k == UnmatchedIdx[i]
        IN  /\ unmatched_titles[i].title = json_titles[k + 1].title
            /\ unmatched_titles[i].prev_title
                 = IF k = 0 THEN None ELSE Some(json_titles[k].title)
            /\ unmatched_titles[i].next_title
                 = IF k = Len(json_titles) - 1 THEN None
                   ELSE Some(json_titles[k + 2].title)

\* an unmatched record whose predecessor is itself unmatched while an
\* earlier entry matched
NeighboursWitness ==
    /\ pc = "aligned"
    /\ \E i \in 2..Len(unmatched_titles) :
          /\ UnmatchedIdx[i] = UnmatchedIdx[i - 1] + 1
          /\ \E a \in DOMAIN json2md : a < UnmatchedIdx[i]
          /\ unmatched_titles[i].prev_title
               = Some(unmatched_titles[i - 1].title)
          /\ unmatched_titles[i].prev_title
               # NearestMatchedBefore(UnmatchedIdx[i])

-----------------------------------------------------------------------------
(* Properties of process_unmatched_titles, checked under SpecResolve *)

\* the current iteration has applied the oracle's response
Finished == it.outcome \notin {"none", "pending"}

\* the loop went on: the index advanced and the run was not reported failed
Continued ==
    /\ pc \in {"prepare", "resolved"}
    /\ resolved_ok # "false"
    /\ pc = "resolved" => title_idx = Len(unmatched_titles)

\* after is before with line inserted at (0-based) position n
InsertedAt(before, after, n, line) ==
    /\ Len(after) = Len(before) + 1
    /\ n >= 0 /\ n <= Len(before)
    /\ after[n + 1] = line
    /\ \A i \in 1..n : after[i] = before[i]
    /\ \A i \in (n + 1)..Len(before) : after[i + 1] = before[i]

\* C4: resolver bound safety.  Every inserted title is inserted within
\* [predecessor_line, successor_line] as computed before any expansion
\* (stated for the titles whose original window is not empty).
InsertionWithinOriginalBounds ==
    (Finished /\ output_md # it.lines_before
        /\ it.prev_line <= it.orig_next_line)
    => (it.prev_line <= it.at /\ it.at <= it.orig_next_line)

\* the response is a text with the no-position marker, or with no token
DeclinesOrNoToken ==
    /\ ~response.is_none
    /\ response.no_position \/ response.token < 0

\* C8 as stated: a response that declares no valid position or has no
\* line-number token leaves the document unchanged, and the run goes on.
SkipOnNoPositionOrNoToken ==
    (Finished /\ DeclinesOrNoToken)
    => (output_md = it.lines_before /\ Continued)

\* C8 amended: a response that declares no valid position, or is empty,
\* leaves the document unchanged; a non-empty response with neither the
\* marker nor a token has the title inserted at predecessor_line at its
\* level; in both cases the run goes on.
SkipOnNoPositionInsertOnNoToken ==
    /\ (Finished /\ ~response.is_none
           /\ (response.is_empty \/ response.no_position))
       => (output_md = it.lines_before /\ Continued)
    /\ (Finished /\ ~response.is_none /\ ~response.is_empty
           /\ ~response.no_position /\ response.token < 0)
       => /\ InsertedAt(it.lines_before, output_md, it.prev_line,
                        FormatHeading(it.level, it.title))
          /\ Continued

\* a token-less response answered for a title whose predecessor heading is
\* not the first line, with a title still to come
SkipOrInsertWitness ==
    /\ Finished
    /\ ~response.is_none /\ ~response.is_empty
    /\ ~response.no_position /\ response.token < 0
    /\ it.prev_line > 0
    /\ pc = "prepare"

\* the response names a line outside the range the code accepts
OutOfWindow ==
    /\ ~response.is_none /\ ~response.is_empty /\ ~response.no_position
    /\ response.token >= 0
    /\ ~(it.prev_line <= response.token /\ response.token <= it.next_line)

OracleFailureAborts ==
    (Finished /\ response.is_none)
    => (pc = "resolved" /\ resolved_ok = "false")

-----------------------------------------------------------------------------
(* Frame of the whole run, checked under SpecResolve *)

\* the lines of a document that the heading scan does not recognise
NonHeadingLines(lines) == SelectSeq(lines, LAMBDA l : ~heading_re(l).ok)

\* the heading texts of a document, in order, as the heading scan reads them
HeadingTextsOf(lines) ==
    LET headings == SelectSeq(lines, LAMBDA l : heading_re(l).ok)
    IN  [k \in 1..Len(headings) |-> heading_re(headings[k]).title]

RECURSIVE IsSubsequence(_, _)
\* a is obtained from b by deleting elements
IsSubsequence(a, b) ==
    IF a = <<>> THEN TRUE
    ELSE IF b = <<>> THEN FALSE
    ELSE IF a[1] = b[1] THEN IsSubsequence(Tail(a), Tail(b))
    ELSE IsSubsequence(a, Tail(b))

\* C11: frame of alignment and resolution.  Once align_titles has written
\* the document, and after every iteration of process_unmatched_titles, the
\* non-heading lines of the document are those of the input, in the same
\* order; every heading of the input is still there with its text (as the
\* heading scan reads it) and in its order; and the only lines added are
\* heading lines, at most one per iteration.  The document file is written
\* only on the steps that end align_titles or an iteration, so it is compared
\* at those positions.
FramePreserved ==
    (written /\ pc \in {"aligned", "prepare", "resolved"}) =>
        /\ NonHeadingLines(output_md) = NonHeadingLines(content)
        /\ IsSubsequence(HeadingTextsOf(content), HeadingTextsOf(output_md))
        /\ Len(output_md) - Len(content) <= title_idx
        /\ Len(output_md) >= Len(content)

\* a document with body lines and headings, one of them rewritten by
\* align_titles, after two insertions
FramePreservedWitness ==
    /\ pc = "resolved"
    /\ Len(output_md) = Len(content) + 2
    /\ NonHeadingLines(content) # <<>>
    /\ \E i \in 1..Len(content) :
           /\ heading_re(content[i]).ok
           /\ \A k \in 1..Len(output_md) : output_md[k] # content[i]

-----------------------------------------------------------------------------
(* Properties of process_json_titles, checked under SpecTrees *)

RECURSIVE Subtree(_)
\* an element and everything below it
Subtree(e) ==
    {e} \cup UNION {Subtree(e.subtitles[k]) : k \in 1..Len(e.subtitles)}

\* no node and no leaf of the tree has an empty title
NoEmptyTitle(tree) ==
    \A i \in 1..Len(tree) : \A e \in Subtree(tree[i]) : e.title # <<>>

RECURSIVE TreeEntries(_, _, _)
RECURSIVE SubEntries(_, _, _, _)
\* one entry per node and per leaf below and including e, depth first, in
\* array order, with the index of the top-level ancestor and the title of
\* the immediate parent
TreeEntries(e, index, parent) ==
    <<[title |-> e.title, index |-> index, parent |-> parent]>>
    \o SubEntries(e.subtitles, 1, index, Some(e.title))

SubEntries(subs, k, index, parent) ==
    IF k > Len(subs) THEN <<>>
    ELSE TreeEntries(subs[k], index, parent)
         \o SubEntries(subs, k + 1, index, parent)

RECURSIVE AllEntries(_, _)
AllEntries(tree, i) ==
    IF i >= Len(tree) THEN <<>>
    ELSE TreeEntries(tree[i + 1], i, None) \o AllEntries(tree, i + 1)

\* process_json_titles has returned or raised
Flattened == pc # "start"

\* C12: flattening is complete and order-preserving.  For every title tree
\* (stated for the trees without an empty title) process_json_titles
\* returns, and its result has exactly one entry per node and per leaf, in
\* depth-first tree-array order, each with the index of its top-level
\* ancestor and the title of its immediate parent.
FlatteningComplete ==
    (Flattened /\ NoEmptyTitle(titles_json))
    => /\ pc # "failed"
       /\ [k \in 1..Len(json_titles) |->
              [title  |-> json_titles[k].title,
               index  |-> json_titles[k].index,
               parent |-> json_titles[k].parent]]
          = AllEntries(titles_json, 0)

\* the flattened entry k was made from a raw-text leaf
IsLeafEntry(k) ==
    \E e \in Subtree(titles_json[json_titles[k].index + 1]) :
        e.kind = "str" /\ e.title = json_titles[k].title

\* the level of the entry made from the parent of entry k
ParentLevel(k) ==
    LET ps == {i \in 1..(k - 1) :
                  /\ json_titles[i].index = json_titles[k].index
                  /\ json_titles[i].title = json_titles[k].parent.text}
    IN  json_titles[Max(ps)].level

\* C13: level inference follows the stated rule for every tree that is
\* flattened.  Every direct element of the top-level array gets level 1; a
\* node whose parent is level 1 gets level 2; a raw-text leaf gets level 3
\* under a level-1 or level-2 parent and level 4 under a level-3 parent; an
\* entry whose parent level is none of 1, 2, 3 gets level 4; and every level
\* is in 1..4.
LevelInferenceRule ==
    (Flattened /\ pc # "failed")
    => \A k \in 1..Len(json_titles) :
            LET e == json_titles[k]
            IN  /\ e.level \in 1..4
                /\ ~e.parent.some => e.level = 1
                /\ e.parent.some =>
                     /\ (~IsLeafEntry(k) /\ ParentLevel(k) = 1)
                            => e.level = 2
                     /\ (IsLeafEntry(k) /\ ParentLevel(k) \in {1, 2})
                            => e.level = 3
                     /\ (IsLeafEntry(k) /\ ParentLevel(k) = 3)
                            => e.level = 4
                     /\ ParentLevel(k) \notin {1, 2, 3} => e.level = 4

\* C28: levels respect nesting.  In the flattened list every entry that has
\* a parent entry has a level that is at least its parent's, and strictly
\* greater when the parent's level is below 4.
LevelsRespectNesting ==
    (Flattened /\ pc # "failed")
    => \A k \in 1..Len(json_titles) :
            json_titles[k].parent.some =>
                /\ json_titles[k].level >= ParentLevel(k)
                /\ ParentLevel(k) < 4 => json_titles[k].level > ParentLevel(k)

-----------------------------------------------------------------------------
(* Failure of align_titles, checked under SpecTrees *)

\* the title tree is one process_json_titles raises on
TreeRejected == process_json_titles(titles_json).err

\* align_titles has returned
Returned == pc \notin {"start", "loop"}

ReportsFailure ==
    /\ ~written
    /\ success # "true"
    /\ Returned => (pc = "failed" /\ success = "false")

\* C14 as stated: when the title tree cannot be processed, or the document
\* has no heading line at all, align_titles reports failure and writes no
\* output document.
MalformedInputFails ==
    (TreeRejected \/ ScanHeadings(content) = <<>>) => ReportsFailure

\* C14 amended: when the title tree cannot be processed, align_titles
\* reports failure and writes no output document.  A document without any
\* heading line is not a failure: align_titles writes it unchanged, reports
\* success and returns every flattened title as unmatched.
OnlyRejectedTreeFails ==
    /\ TreeRejected => ReportsFailure
    /\ (~TreeRejected /\ ScanHeadings(content) = <<>> /\ Returned)
       => /\ pc = "aligned"
          /\ success = "true"
          /\ written
          /\ output_md = content
          /\ [k \in 1..Len(unmatched_titles) |-> unmatched_titles[k].title]
             = [k \in 1..Len(json_titles) |-> json_titles[k].title]

\* align_titles has returned for a document of body lines only and a tree
\* with titles
OnlyRejectedTreeFailsWitness ==
    /\ Returned
    /\ ~TreeRejected
    /\ content # <<>>
    /\ ScanHeadings(content) = <<>>
    /\ json_titles # <<>>

-----------------------------------------------------------------------------
(* Isolation of the workers of run_batch, checked under SpecBatch *)

\* what a worker that runs alone ends with: never an error of the image
\* file, and an image compressed once per 413 answer it went on from
AsAlone(w) ==
    /\ worker[w].result \in {"ok", "too_large", "http_error"}
    /\ worker[w].image = Min({worker[w].retry_count, qwen_max_retries - 1})

\* C15: document isolation under parallel batch processing.  Under every
\* interleaving of the worker threads of run_batch, each worker ends with
\* the result it has when it processes its document alone.
BatchIsolation ==
    \A w \in 1..NumWorkers : worker[w].pc = "done" => AsAlone(w)

-----------------------------------------------------------------------------
(* The heading cursor of align_titles, checked under Spec *)

\* the headings (indices into md_titles, 0-based) that either tier's test
\* accepts for the tree title k
MatchingHeadings(k) ==
    {m \in 0..(Len(md_titles) - 1) :
        \/ exact_test(md_titles[m + 1].title, json_titles[k + 1].title)
        \/ is_title_match(md_titles[m + 1].title,
                          json_titles[k + 1].title).match}

\* the tree title about to be processed has matching headings, all of them
\* below the cursor
OnlyMatchesBehind ==
    /\ pc = "loop"
    /\ j < Len(json_titles)
    /\ MatchingHeadings(j) # {}
    /\ \A m \in MatchingHeadings(j) : m < md_ptr

\* one step of align_titles, as the cursor sees it
CursorStep ==
    /\ md_ptr' >= md_ptr
    /\ (j' = j + 1 /\ j \in DOMAIN json2md')
       => \E m \in md_ptr..(Len(md_titles) - 1) :
              /\ md_titles[m + 1].line = json2md'[j]
              /\ md_ptr' = m + 1
    /\ (j' = j + 1 /\ OnlyMatchesBehind)
       => /\ j \notin DOMAIN json2md'
          /\ Len(unmatched_titles') = Len(unmatched_titles) + 1
          /\ unmatched_titles'[Len(unmatched_titles')].title
                = json_titles[j + 1].title
          /\ UNCHANGED <<md_ptr, matched_md_idx, processed_lines>>
    /\ (pc = "loop" /\ pc' = "aligned")
       => \A m \in 0..(Len(md_titles) - 1) :
              md_titles[m + 1].line \notin matched_md_idx
              => output_md'[md_titles[m + 1].line + 1]
                    = FormatHeading(4, md_titles[m + 1].title)

-----------------------------------------------------------------------------
(* The fuzzy tier of align_titles, checked under Spec *)

\* the score the fuzzy tier gives heading m for tree title k: the ratio of
\* the core texts when it is at least 0.8, else 0.9 when the title's core
\* text is contained in the heading's, else nothing
FuzzyScore(m, k) ==
    LET md_core == extract_chinese(md_titles[m + 1].title)
        json_core == extract_chinese(json_titles[k + 1].title)
        ratio == fuzz_ratio(md_core, json_core)
    IN  IF SimGe(ratio, Sim(8, 10)) THEN ratio
        ELSE IF IsSubstring(json_core, md_core) THEN Sim(9, 10)
        ELSE Sim(0, 1)

\* the unconsumed headings from the cursor on that have a score
FuzzyCandidates ==
    {m \in md_ptr..(Len(md_titles) - 1) :
        /\ md_titles[m + 1].line \notin matched_md_idx
        /\ SimGt(FuzzyScore(m, j), Sim(0, 1))}

\* the exact tier finds nothing for the tree title about to be processed
ExactTierEmpty ==
    /\ pc = "loop"
    /\ j < Len(json_titles)
    /\ \A m \in md_ptr..(Len(md_titles) - 1) :
          md_titles[m + 1].line \in matched_md_idx
          \/ (/\ md_titles[m + 1].title # json_titles[j + 1].title
              /\ extract_chinese(md_titles[m + 1].title)
                    # extract_chinese(json_titles[j + 1].title))

FuzzyStep ==
    (ExactTierEmpty /\ j' = j + 1)
    => IF FuzzyCandidates = {}
       THEN /\ j \notin DOMAIN json2md'
            /\ Len(unmatched_titles') = Len(unmatched_titles) + 1
            /\ unmatched_titles'[Len(unmatched_titles')].title
                  = json_titles[j + 1].title
       ELSE /\ j \in DOMAIN json2md'
            /\ unmatched_titles' = unmatched_titles
            /\ \E m \in FuzzyCandidates :
                  /\ md_titles[m + 1].line = json2md'[j]
                  /\ \A n \in FuzzyCandidates :
                        /\ SimGe(FuzzyScore(m, j), FuzzyScore(n, j))
                        /\ n < m => SimGt(FuzzyScore(m, j), FuzzyScore(n, j))

\* C17: fuzzy-tier selection.  When the exact tier finds nothing, the
\* unconsumed headings from the cursor on are scored with their ratio if it
\* is at least 0.8, or with 0.9 if it is below 0.8 but the title's core text
\* is a substring of the heading's; the title is matched to the heading of
\* the highest score, the earliest among equals, and it is recorded as
\* unmatched iff no heading has a score.
FuzzySelection == [][FuzzyStep]_vars

\* a title matched to a heading that contains it (0.9), with an earlier
\* heading of the scanned range at ratio 0.8 left unconsumed
FuzzySelectionWitness ==
    \E k \in DOMAIN json2md :
        \E m, n \in 0..(Len(md_titles) - 1) :
            /\ md_titles[m + 1].line = json2md[k]
            /\ n < m
            /\ md_titles[n + 1].line \notin matched_md_idx
            /\ \A a \in DOMAIN json2md :
                  a < k => json2md[a] < md_titles[n + 1].line
            /\ SimGe(FuzzyScore(n, k), Sim(8, 10))
            /\ SimGt(FuzzyScore(m, k), FuzzyScore(n, k))
            /\ FuzzyScore(m, k) = Sim(9, 10)
            /\ ~SimGe(fuzz_ratio(extract_chinese(md_titles[m + 1].title),
                                 extract_chinese(json_titles[k + 1].title)),
                      Sim(8, 10))

-----------------------------------------------------------------------------
(* Tree titles with empty text, checked under SpecTrees *)

\* C18: a tree title with empty text, a node with an empty title or an
\* empty raw-text leaf, is treated as if it did not exist: it never
\* consumes a document heading and never appears in the unmatched list.
EmptyTitleIgnored ==
    /\ \A k \in DOMAIN json2md : json_titles[k + 1].title # <<>>
    /\ \A i \in 1..Len(unmatched_titles) : unmatched_titles[i].title # <<>>

-----------------------------------------------------------------------------
(* The document each iteration works on, checked under SpecResolve *)

\* an iteration has located its neighbours and not yet written
Located == pc \in {"call", "apply"}

\* line is where the first heading of lines with the core text of title
\* stands, or default when title is None or empty or lines has no such
\* heading
LocatedIn(lines, title, line, default) ==
    LET hits == {i \in 1..Len(lines) :
                    /\ heading_re(lines[i]).ok
                    /\ extract_chinese(heading_re(lines[i]).title)
                          = extract_chinese(title.text)}
    IN  IF Truthy(title) /\ hits # {}
        THEN line + 1 \in hits /\ \A i \in hits : line + 1 <= i
        ELSE line = default

\* C19: each unmatched title is resolved against the current document.
\* While an iteration is under way, the lines it works on are the document
\* with every insertion of the iterations before it, and its predecessor
\* and successor lines are the lines at which the headings of
\* predecessor_title and successor_title stand in that document.
ResolvedAgainstCurrent ==
    Located =>
        /\ it.lines_before = output_md
        /\ LocatedIn(output_md, unmatched_titles[title_idx + 1].prev_title,
                     it.prev_line, 0)
        /\ LocatedIn(output_md, unmatched_titles[title_idx + 1].next_title,
                     it.orig_next_line, Len(output_md) - 1)

\* a later iteration whose predecessor heading does not stand where the
\* document written by align_titles has it (or has none)
ResolvedAgainstCurrentWitness ==
    /\ Located
    /\ title_idx >= 1
    /\ Len(output_md) > Len(processed_lines)
    /\ Truthy(unmatched_titles[title_idx + 1].prev_title)
    /\ heading_re(output_md[it.prev_line + 1]).ok
    /\ ~LocatedIn(processed_lines,
                  unmatched_titles[title_idx + 1].prev_title,
                  it.prev_line, 0)

\* C20: for the unmatched title of the first iteration, predecessor_line
\* is the line of the very heading align_titles matched to
\* predecessor_title, and successor_line the line of the heading matched to
\* successor_title; predecessor_line is the document start when there is no
\* predecessor and successor_line the document end when there is no
\* successor.
NeighbourLinesAreMatchedHeadings ==
    (Located /\ title_idx = 0)
    => LET k == UnmatchedIdx[1]
       IN  /\ (k - 1) \in DOMAIN json2md => it.prev_line = json2md[k - 1]
           /\ (k + 1) \in DOMAIN json2md
                => it.orig_next_line = json2md[k + 1]
           /\ k = 0 => it.prev_line = 0
           /\ k = Len(json_titles) - 1
                => it.orig_next_line = Len(output_md) - 1

-----------------------------------------------------------------------------
(* Window expansion and page blocks, checked under SpecResolve *)

\* the page blocks whose content lines fall within the window of the
\* current title as it was located
StrictPageBlocks ==
    filter_page_blocks_by_lines(parse_page_blocks(it.lines_before),
                                it.prev_line, it.orig_next_line, TRUE)

\* min(last document line, predecessor_line + 200)
ExpandedBound ==
    IF Len(it.lines_before) - 1 <= it.prev_line + ExpandLines
    THEN Len(it.lines_before) - 1 ELSE it.prev_line + ExpandLines

\* C21: the window of a located title is expanded exactly when its strict
\* page-block range covers at most 2 page blocks; when expanded the upper
\* bound is min(last document line, predecessor_line + 200), otherwise it
\* is the successor line.
ExpansionOnSmallStrictRange ==
    Located =>
        /\ it.expanded <=> Len(StrictPageBlocks) <= 2
        /\ it.next_line = IF Len(StrictPageBlocks) <= 2
                          THEN ExpandedBound ELSE it.orig_next_line

\* C21 where the successor line is not above the predecessor line
ExpansionOnSmallStrictRangeForward ==
    (Located /\ it.prev_line <= it.orig_next_line) =>
        /\ it.expanded <=> Len(StrictPageBlocks) <= 2
        /\ it.next_line = IF Len(StrictPageBlocks) <= 2
                          THEN ExpandedBound ELSE it.orig_next_line

\* C30: window expansion never shrinks the window.  Whenever the upper
\* bound of a title's search range is replaced, the new bound is at least
\* the successor line located for that title.
ExpansionNeverShrinks ==
    (Located /\ it.expanded) => it.next_line >= it.orig_next_line

RECURSIVE ContentLinesFrom(_, _)
\* for every block parse_page_blocks finds from index i (1-based) on, the
\* global (0-based) line numbers of its content lines
ContentLinesFrom(lines, i) ==
    LET markers == {k \in i..Len(lines) : PageIdx(lines[k]) # <<>>}
    IN  IF markers = {} THEN <<>>
        ELSE LET open == SkipTo(lines, Min(markers) + 1, "[")
                 close == SkipTo(lines, open + 1, "]")
             IN  <<{n \in 0..(Len(lines) - 1) :
                      open <= n /\ n <= close - 2}>>
                 \o ContentLinesFrom(lines, close + 1)

\* the page blocks with a content line whose global line number is within
\* the window of the current title
BlocksByGlobalLines ==
    LET blocks == parse_page_blocks(it.lines_before)
        at == ContentLinesFrom(it.lines_before, 1)
        chosen == SelectSeq([k \in 1..Len(blocks) |-> k],
                            LAMBDA k : \E n \in at[k] :
                                it.prev_line <= n /\ n <= it.orig_next_line)
    IN  [n \in 1..Len(chosen) |-> blocks[chosen[n]]]

\* C22: the strict page-block range of a located title holds exactly the
\* page blocks with at least one content line whose global document line
\* number is within [predecessor_line, successor_line].
StrictRangeByGlobalLines ==
    Located => StrictPageBlocks = BlocksByGlobalLines

\* int(page_idx) of a string of decimal digits
DigitValue(c) ==
    CHOOSE v \in 0..9 :
        c = <<"0", "1", "2", "3", "4", "5", "6", "7", "8", "9">>[v + 1]

RECURSIVE PageNumber(_)
PageNumber(ds) ==
    IF ds = <<>> THEN 0
    ELSE 10 * PageNumber(SubSeq(ds, 1, Len(ds) - 1)) + DigitValue(ds[Len(ds)])

\* C23: the page blocks the resolver works with are in ascending numeric
\* order of their page ids, whatever the order of the page markers in the
\* document.
PageBlocksAscending ==
    Located =>
        LET blocks == parse_page_blocks(it.lines_before)
        IN  \A a, b \in 1..Len(blocks) :
                a < b => PageNumber(blocks[a].page_idx)
                             <= PageNumber(blocks[b].page_idx)

-----------------------------------------------------------------------------
(* The excerpt and the insertion position, checked under SpecResolve *)

RECURSIVE ShownFrom(_, _, _, _, _)
\* the numbers shown for the content lines i.. of one page block: each line
\* is looked up in the document from prev_line (the first) or from behind
\* the last line found; a line found at index n is shown as n + 1, a line
\* not found is shown as '?'
ShownFrom(lines, page_content, i, last_found, prev_line) ==
    IF i > Len(page_content) THEN {}
    ELSE LET search_start == IF i = 1 THEN prev_line ELSE last_found + 1
             found == {n \in search_start..(Len(lines) - 1) :
                          lines[n + 1] = page_content[i]}
         IN  IF found = {}
             THEN ShownFrom(lines, page_content, i + 1, last_found, prev_line)
             ELSE {Min(found) + 1}
                  \cup ShownFrom(lines, page_content, i + 1, Min(found),
                                 prev_line)

\* the line numbers of page_blocks_str, the excerpt sent to the oracle
ExcerptNumbers(lines, prev_line, next_line) ==
    LET page_blocks_in_range ==
            filter_page_blocks_by_lines(parse_page_blocks(lines), prev_line,
                                        next_line, FALSE)
    IN  IF page_blocks_in_range = <<>>
        THEN {n + 1 : n \in {m \in 0..(Len(lines) - 1) :
                                prev_line <= m /\ m <= next_line}}
        ELSE UNION {ShownFrom(lines, page_blocks_in_range[b].content, 1,
                              prev_line - 1, prev_line) :
                        b \in 1..Len(page_blocks_in_range)}

\* the oracle named a line number of its excerpt and the code accepted it
AcceptedExcerptLine ==
    /\ Finished
    /\ it.outcome = "inserted"
    /\ response.token \in
           ExcerptNumbers(it.lines_before, it.prev_line, it.next_line)

\* C24: when the oracle names line N in the 1-based numbering of the
\* excerpt and N is accepted, the new heading becomes line N (1-based) of
\* the document, immediately before the line the excerpt showed as N.
InsertionAnchoredToExcerpt ==
    AcceptedExcerptLine
    => InsertedAt(it.lines_before, output_md, response.token - 1,
                  FormatHeading(it.level, it.title))

\* the predecessor and the successor heading of the title just handled were
\* both found in the document
BothNeighboursLocated ==
    LET u == unmatched_titles[title_idx]
        titles == ScanHeadings(it.lines_before)
    IN  /\ Truthy(u.prev_title)
        /\ FirstCoreLine(titles, u.prev_title.text, -1) # -1
        /\ Truthy(u.next_title)
        /\ FirstCoreLine(titles, u.next_title.text, -1) # -1

\* C26: a title inserted between two located neighbours stands strictly
\* after the predecessor heading line and strictly before the successor
\* heading line, whatever the oracle answered.
InsertedBetweenNeighbours ==
    (Finished /\ output_md # it.lines_before /\ BothNeighboursLocated)
    => /\ InsertedAt(it.lines_before, output_md, it.at,
                     FormatHeading(it.level, it.title))
       /\ it.prev_line < it.at
       /\ it.at <= it.orig_next_line

-----------------------------------------------------------------------------
(* deepseek_api, checked under SpecResolveFair *)

\* one HTTP attempt of deepseek_api and what follows from its outcome
RetryStep ==
    pc = "call" =>
        /\ attempt < max_retries
        /\ \/ /\ it'.http = "200"
              /\ pc' = "apply" /\ attempt' = attempt
           \/ /\ it'.http \in {"429", "exception"}
              /\ attempt < max_retries - 1
              /\ pc' = "call" /\ attempt' = attempt + 1
           \/ /\ it'.http \in {"429", "exception"}
              /\ attempt = max_retries - 1
              /\ pc' = "apply" /\ attempt' = attempt
              /\ response' = NoResponse
           \/ /\ it'.http = "other"
              /\ pc' = "apply" /\ attempt' = attempt
              /\ response' = NoResponse

-----------------------------------------------------------------------------
(* The resolver loop, checked under SpecResolveFair *)

\* process_unmatched_titles is running
Resolving == pc \in {"prepare", "call", "apply"}

\* one step of the resolver: the titles are taken in list order; the index
\* moves by one, when the title taken has been handled, and with it the
\* document stays or gains the one heading line of that title; the run
\* returns True when the index has reached the end of the list
ExactlyOnceStep ==
    Resolving =>
        /\ unmatched_titles' = unmatched_titles
        /\ (pc = "prepare") =>
               /\ title_idx < Len(unmatched_titles)
               /\ it'.title = unmatched_titles[title_idx + 1].title
               /\ it'.level = unmatched_titles[title_idx + 1].level
        /\ (pc # "apply") => (title_idx' = title_idx /\ output_md' = output_md)
        /\ (pc = "apply") =>
               /\ title_idx' = title_idx + 1
               /\ \/ output_md' = output_md
                  \/ \E n \in 0..Len(output_md) :
                         InsertedAt(output_md, output_md', n,
                                    FormatHeading(it.level, it.title))
               /\ pc' = IF title_idx' < Len(unmatched_titles)
                        THEN "prepare" ELSE "resolved"
        /\ (pc' = "resolved") => resolved_ok' = "true"

\* C27: the resolver handles every unmatched title exactly once, in list
\* order, adds at most one line per title, so that the document has as
\* many lines more as titles were inserted, and returns.
ExactlyOnceAndTerminates ==
    /\ [][ExactlyOnceStep]_vars
    /\ [](Resolving \/ pc = "resolved" =>
             /\ title_idx <= Len(unmatched_titles)
             /\ Len(output_md) >= Len(processed_lines)
             /\ Len(output_md) - Len(processed_lines) <= title_idx)
    /\ Resolving ~> (pc = "resolved" /\ title_idx = Len(unmatched_titles))

\* a run over two unmatched titles has returned, one title inserted and the
\* other skipped
ExactlyOnceWitness ==
    /\ pc = "resolved"
    /\ title_idx = 2
    /\ Len(unmatched_titles) = 2
    /\ Len(output_md) = Len(processed_lines) + 1

-----------------------------------------------------------------------------
(* Running align_titles again, checked under SpecTwice *)

\* C29: alignment is idempotent.  align_titles run on the document it
\* produced, with the same title tree, writes the same document and returns
\* the same unmatched list as the first run.
AlignIdempotent ==
    (pc = "aligned" /\ first_run.done)
    => /\ success = "true"
       /\ output_md = first_run.output
       /\ unmatched_titles = first_run.unmatched

\* a second run has ended on a document in which the first run rewrote a
\* matched heading and demoted another one, with a title left unmatched
AlignIdempotentWitness ==
    /\ pc = "aligned"
    /\ first_run.done
    /\ unmatched_titles # <<>>
    /\ matched_md_idx # {}
    /\ \E k \in 1..Len(md_titles) : md_titles[k].line \notin matched_md_idx
    /\ \E i \in 1..Len(output_md) :
          /\ (i - 1) \in matched_md_idx
          /\ first_run.input[i] # output_md[i]

=============================================================================
